---- MODULE Spec2Model ----
(***************************************************************************)
(* Model of scripts/check_pytorch_version.py: the resolution of the        *)
(* PyTorch version from a checkpoint file or from the Python environment,  *)
(* the parse of the version string, and the output of the script.          *)
(*                                                                         *)
(* A Python string is the sequence of its characters, each a one-character *)
(* string.  A Python value is a record [t, s, n]: t is its type ("str",    *)
(* "none", "int"), s the characters of a str, n the number of an int.      *)
(***************************************************************************)
EXTENDS Integers, Sequences, FiniteSets, TLC

\* ------------------------------------------------------------------ bounds

\* Longest version string the parse is applied to in ParseSpec.
MaxLen == 5
\* Most entries of a checkpoint's "callbacks" mapping.
MaxCallbacks == 2

\* ------------------------------------------------------------------ values

Str(s) == [t |-> "str", s |-> s, n |-> 0]
IntV(n) == [t |-> "int", s |-> <<>>, n |-> n]
None == [t |-> "none", s |-> <<>>, n |-> 0]

\* Python's truth value of an object: None, "" and 0 are false.
Truthy(v) ==
    CASE v.t = "str" -> v.s /= <<>>
      [] v.t = "int" -> v.n /= 0
      [] OTHER -> FALSE

DigitChars == <<"0", "1", "2", "3", "4", "5", "6", "7", "8", "9">>

IsDigit(c) == \E i \in 1..10 : DigitChars[i] = c

DigitVal(c) == (CHOOSE i \in 1..10 : DigitChars[i] = c) - 1

\* int(): the number a string of decimal digits denotes.
RECURSIVE IntOf(_)
IntOf(ds) ==
    IF ds = <<>> THEN 0
    ELSE 10 * IntOf(SubSeq(ds, 1, Len(ds) - 1)) + DigitVal(ds[Len(ds)])

\* The formatting of an int in an f-string: its decimal digits, no leading zero.
RECURSIVE Dec(_)
Dec(n) ==
    IF n < 10 THEN <<DigitChars[n + 1]>>
    ELSE Dec(n \div 10) \o <<DigitChars[(n % 10) + 1]>>

\* What a greedy \d+ consumes at the start of s: the longest run of digits.
RECURSIVE DigitRun(_)
DigitRun(s) ==
    IF s /= <<>> /\ IsDigit(Head(s)) THEN <<Head(s)>> \o DigitRun(Tail(s))
    ELSE <<>>

Drop(s, k) == SubSeq(s, k + 1, Len(s))

\* re.match(r'^(\d+)\.(\d+)\.', s): the two groups, or <<>> when there is no match.
VersionMatch(s) ==
    LET g1 == DigitRun(s)
        r1 == Drop(s, Len(g1))
    IN  IF g1 = <<>> \/ r1 = <<>> \/ Head(r1) /= "." THEN <<>>
        ELSE LET g2 == DigitRun(Tail(r1))
                 r2 == Drop(Tail(r1), Len(g2))
             IN  IF g2 = <<>> \/ r2 = <<>> \/ Head(r2) /= "." THEN <<>>
                 ELSE <<g1, g2>>

\* The result of a call: the value returned, or the exception raised.
Return(v) == [raised |-> "", value |-> v]
Raise(e) == [raised |-> e, value |-> None]

\* Variant of parse_pytorch_version: the groups are joined as matched, without int().
ParseWithoutIntConversion(version_str) ==
    IF ~Truthy(version_str) THEN Return(None)
    ELSE IF version_str.t /= "str" THEN Raise("TypeError")
    ELSE LET m == VersionMatch(version_str.s)
         IN  IF m /= <<>> THEN Return(Str(m[1] \o <<".">> \o m[2]))
             ELSE Return(None)

\* Variant of parse_pytorch_version: the pattern lacks the dot after the minor.
ParseWithoutTrailingDot(version_str) ==
    IF ~Truthy(version_str) THEN Return(None)
    ELSE IF version_str.t /= "str" THEN Raise("TypeError")
    ELSE LET g1 == DigitRun(version_str.s)
             r1 == Drop(version_str.s, Len(g1))
             g2 == IF r1 = <<>> THEN <<>> ELSE DigitRun(Tail(r1))
         IN  IF g1 /= <<>> /\ r1 /= <<>> /\ Head(r1) = "." /\ g2 /= <<>>
             THEN Return(Str(Dec(IntOf(g1)) \o <<".">> \o Dec(IntOf(g2))))
             ELSE Return(None)

\* parse_pytorch_version: "major.minor" of a version string, None when it has
\* no leading "int.int." and a TypeError when a true value is not a string.
parse_pytorch_version(version_str) ==
    IF ~Truthy(version_str) THEN Return(None)
    ELSE IF version_str.t /= "str" THEN Raise("TypeError")
    ELSE LET m == VersionMatch(version_str.s)
         IN  IF m /= <<>>
             THEN LET major == IntOf(m[1])
                      minor == IntOf(m[2])
                  IN  Return(Str(Dec(major) \o <<".">> \o Dec(minor)))
             ELSE Return(None)

\* ------------------------------------------------------------ environment

V280 == <<"2", ".", "8", ".", "0">>
V1131 == <<"1", ".", "1", "3", ".", "1">>
V210cu == <<"2", ".", "1", ".", "0", "+", "c", "u", "1", "1", "8">>
V28 == <<"2", ".", "8">>

\* The values a torch_version entry of a checkpoint holds: two well-formed
\* versions, a version with no patch component, the empty string, a number.
CkptVersions == {Str(V280), Str(V1131), Str(V28), Str(<<>>), IntV(5)}

\* torch.__version__ of an installed PyTorch: always "major.minor.patch...".
RuntimeVersions == {V280, V210cu}

\* The interpreter's torch: importable, absent (ImportError), or broken so that
\* the import raises another exception (OSError: a library fails to load).
Runtimes ==
    [status : {"ok"}, version : RuntimeVersions]
        \cup [status : {"ImportError", "OSError"}, version : {<<>>}]

\* ckpt['hyper_parameters']: absent, None, a list, or a mapping.
HyperParameters ==
    [kind : {"absent", "none", "list"}, has : {FALSE}, tv : {None}]
        \cup [kind : {"dict"}, has : {FALSE}, tv : {None}]
        \cup [kind : {"dict"}, has : {TRUE}, tv : CkptVersions]

\* ckpt['metadata']: absent, not a dict, or a dict.
Metadata ==
    [kind : {"absent", "nondict"}, has : {FALSE}, tv : {None}]
        \cup [kind : {"dict"}, has : {FALSE}, tv : {None}]
        \cup [kind : {"dict"}, has : {TRUE}, tv : CkptVersions]

\* One value of ckpt['callbacks']: not a dict, or a dict.
CallbackStates ==
    [kind : {"nondict"}, has : {FALSE}, tv : {None}]
        \cup [kind : {"dict"}, has : {FALSE}, tv : {None}]
        \cup [kind : {"dict"}, has : {TRUE}, tv : CkptVersions]

\* ckpt['callbacks']: absent, a list (no .values()), or a mapping whose values
\* are listed in iteration order.
Callbacks ==
    [kind : {"absent", "list"}, entries : {<<>>}]
        \cup [kind : {"dict"},
              entries : UNION {[1..k -> CallbackStates] : k \in 0..MaxCallbacks}]

NoEntry == [kind |-> "absent", has |-> FALSE, tv |-> None]
NoCallbacks == [kind |-> "absent", entries |-> <<>>]

\* What torch.load returns: a dict with the three entries, or another object.
Checkpoints ==
    [kind : {"dict"}, hyper_parameters : HyperParameters, metadata : Metadata,
     callbacks : Callbacks]
        \cup {[kind |-> "nondict", hyper_parameters |-> NoEntry,
               metadata |-> NoEntry, callbacks |-> NoCallbacks]}

NoCheckpoint ==
    [kind |-> "nondict", hyper_parameters |-> NoEntry, metadata |-> NoEntry,
     callbacks |-> NoCallbacks]

\* The file the argument names: missing, one torch.load fails on, or a checkpoint.
Files ==
    [state : {"missing", "corrupt"}, ckpt : {NoCheckpoint}]
        \cup [state : {"ok"}, ckpt : Checkpoints]

NoFile == [state |-> "missing", ckpt |-> NoCheckpoint]

\* sys.argv[1:]
Arguments == {<<>>, <<"">>, <<"model.ckpt">>}

\* -------------------------------------------------------------- functions

\* import torch
ImportTorch(rt) == IF rt.status = "ok" THEN Return(Str(rt.version)) ELSE Raise(rt.status)

\* get_torch_version_from_env: torch.__version__, None on an ImportError; any
\* other exception of the import is raised to the caller.
get_torch_version_from_env(rt) ==
    LET imp == ImportTorch(rt)
    IN  IF imp.raised = "ImportError" THEN Return(None) ELSE imp

\* The callbacks values that are dicts holding 'torch_version'.
WithVersion(entries) ==
    {i \in 1..Len(entries) : entries[i].kind = "dict" /\ entries[i].has}

Min(S) == CHOOSE i \in S : \A j \in S : i <= j

\* The body of the try block after torch.load returned ckpt.
InspectCheckpoint(ckpt, torch_version) ==
    LET hparams == ckpt.hyper_parameters
        metadata == ckpt.metadata
        callbacks == ckpt.callbacks
    IN  IF ckpt.kind /= "dict" THEN Return(torch_version)
        ELSE IF hparams.kind = "none" THEN Raise("TypeError")
        ELSE IF hparams.kind = "dict" /\ hparams.has THEN Return(hparams.tv)
        ELSE IF metadata.kind = "dict" /\ metadata.has THEN Return(metadata.tv)
        ELSE IF callbacks.kind = "list" THEN Raise("AttributeError")
        ELSE IF callbacks.kind = "dict" /\ WithVersion(callbacks.entries) /= {}
        THEN Return(callbacks.entries[Min(WithVersion(callbacks.entries))].tv)
        ELSE Return(torch_version)

\* torch.load(checkpoint_path, map_location='cpu')
TorchLoad(f) == IF f.state = "ok" THEN Return(None) ELSE Raise("UnpicklingError")

\* Variant of get_torch_version_from_checkpoint: a failed load returns the
\* runtime version instead of None.
CheckpointLoadFailureGivesProxy(f, rt) ==
    IF f.state = "missing" THEN None
    ELSE LET imp == ImportTorch(rt)
             res == InspectCheckpoint(f.ckpt, imp.value)
         IN  IF imp.raised /= "" THEN None
             ELSE IF TorchLoad(f).raised /= "" THEN imp.value
             ELSE IF res.raised /= "" THEN None
             ELSE res.value

\* get_torch_version_from_checkpoint: None when the file does not exist and when
\* anything in the try block raises.
get_torch_version_from_checkpoint(f, rt) ==
    IF f.state = "missing" THEN None
    ELSE LET imp == ImportTorch(rt)
             res == InspectCheckpoint(f.ckpt, imp.value)
         IN  IF imp.raised /= "" \/ TorchLoad(f).raised /= "" THEN None
             ELSE IF res.raised /= "" THEN None
             ELSE res.value

\* ------------------------------------------------------------------ state

VARIABLES
    argv,             \* sys.argv[1:]
    file,             \* the file the argument names
    runtime,          \* the interpreter's torch
    pc,               \* the statement of the script that runs next
    checkpoint_path,  \* main's local: "None", "" or the path
    version,          \* main's local
    source,           \* main's local; "unbound" until it is assigned
    parsed_version,   \* main's local
    stdout,           \* what was written to sys.stdout, in order
    stderr,           \* what was written to sys.stderr, in order
    exit_code,        \* the exit status of the process; -1 while it runs
    exc,              \* the exception that left main, "" when none did
    ckpt_ret,         \* the call of get_torch_version_from_checkpoint, if made
    env_ret,          \* the call of get_torch_version_from_env, if made
    run,              \* 1 in the first run of the script, 2 in a second one
    prev              \* what the first run wrote and its exit status

vars ==
    <<argv, file, runtime, pc, checkpoint_path, version, source, parsed_version,
      stdout, stderr, exit_code, exc, ckpt_ret, env_ret, run, prev>>

env == <<argv, file, runtime>>

\* A call of main's: whether it was made, and what it returned or raised.
NotCalled == [called |-> FALSE, raised |-> "", value |-> None]
Called(r) == [called |-> TRUE, raised |-> r.raised, value |-> r.value]

NoOutput == [stdout |-> <<>>, stderr |-> <<>>, exit_code |-> -1, exc |-> ""]

\* print(f"{key}{val}") of a string val, print(f"SOURCE={source}"), and
\* sys.stdout.write(val).
Line(key, val) == [text |-> key, val |-> val, tag |-> "", nl |-> TRUE]
TagLine(key, tag) == [text |-> key, val |-> <<>>, tag |-> tag, nl |-> TRUE]
Bare(val) == [text |-> "", val |-> val, tag |-> "", nl |-> FALSE]

UnresolvedDiagnostic ==
    <<"ERROR: Could not determine PyTorch version.",
      "Please ensure PyTorch is installed or provide a valid checkpoint file.">>

UnparseableDiagnostic == <<"ERROR: Could not parse PyTorch version.">>

\* print(f"ERROR: {e}", file=sys.stderr)
ExceptionDiagnostic(e) ==
    CASE e = "TypeError" -> <<"ERROR: expected string or bytes-like object">>
      [] e = "OSError" -> <<"ERROR: OSError">>
      [] e = "UnboundLocalError" -> <<"ERROR: local variable 'source' referenced before assignment">>
      [] OTHER -> <<"ERROR: ">>

\* The statements of main, where a KeyboardInterrupt can be raised.
MainPcs ==
    {"main", "try_checkpoint", "fallback_env", "check_version", "parse",
     "print_version", "print_major_minor", "print_source", "write_parsed", "return"}

Locals ==
    /\ pc = "main"
    /\ checkpoint_path = "None"
    /\ version = None
    /\ source = "unbound"
    /\ parsed_version = None
    /\ stdout = <<>>
    /\ stderr = <<>>
    /\ exit_code = -1
    /\ exc = ""
    /\ ckpt_ret = NotCalled
    /\ env_ret = NotCalled

Init ==
    /\ argv \in Arguments
    /\ file \in (IF argv = <<"model.ckpt">> THEN Files ELSE {NoFile})
    /\ runtime \in Runtimes
    /\ Locals
    /\ run = 1
    /\ prev = NoOutput

\* ---------------------------------------------------------------- actions

\* main, lines 85-87: the optional argument.
ReadArgument ==
    /\ pc = "main"
    /\ checkpoint_path' = IF Len(argv) > 0 THEN argv[1] ELSE "None"
    /\ pc' = "try_checkpoint"
    /\ UNCHANGED <<env, version, source, parsed_version, stdout, stderr,
                   exit_code, exc, ckpt_ret, env_ret, run, prev>>

\* Variant of FileAfterRead: the file is opened for writing.
FileTruncatedByRead(f) ==
    IF f.state = "missing" THEN f ELSE [state |-> "corrupt", ckpt |-> NoCheckpoint]

\* The file after get_torch_version_from_checkpoint: exists() and torch.load
\* only read it.
FileAfterRead(f) == f

\* main, lines 90-93: the version of the checkpoint, when a path was given.
TryCheckpoint ==
    /\ pc = "try_checkpoint"
    /\ IF checkpoint_path \notin {"None", ""}
       THEN LET v == get_torch_version_from_checkpoint(file, runtime)
            IN  /\ version' = v
                /\ source' = "checkpoint"
                /\ ckpt_ret' = Called(Return(v))
                /\ file' = FileAfterRead(file)
       ELSE UNCHANGED <<version, source, ckpt_ret, file>>
    /\ pc' = "fallback_env"
    /\ UNCHANGED <<argv, runtime, checkpoint_path, parsed_version, stdout, stderr,
                   exit_code, exc, env_ret, run, prev>>

\* Variant of NeedsFallback: "if version is None".
NeedsFallbackOnlyIfNone(v) == v.t = "none"

\* Variant of NeedsFallback: the environment is always asked.
NeedsFallbackAlways(v) == TRUE

\* main, line 96: "if not version"
NeedsFallback(v) == ~Truthy(v)

\* main, lines 96-98: the version of the environment, when there is none yet.
FallbackEnv ==
    /\ pc = "fallback_env"
    /\ IF NeedsFallback(version)
       THEN LET r == get_torch_version_from_env(runtime)
            IN  IF r.raised = ""
                THEN /\ version' = r.value
                     /\ source' = "environment"
                     /\ env_ret' = Called(r)
                     /\ pc' = "check_version"
                     /\ exc' = exc
                ELSE /\ exc' = r.raised
                     /\ pc' = "except"
                     /\ env_ret' = Called(r)
                     /\ UNCHANGED <<version, source>>
       ELSE /\ pc' = "check_version"
            /\ UNCHANGED <<version, source, env_ret, exc>>
    /\ UNCHANGED <<env, checkpoint_path, parsed_version, stdout, stderr,
                   exit_code, ckpt_ret, run, prev>>

\* main, lines 100-103: no version at all.
CheckVersion ==
    /\ pc = "check_version"
    /\ IF ~Truthy(version)
       THEN /\ stderr' = stderr \o UnresolvedDiagnostic
            /\ exit_code' = 1
            /\ pc' = "exited"
       ELSE /\ pc' = "parse"
            /\ UNCHANGED <<stderr, exit_code>>
    /\ UNCHANGED <<env, checkpoint_path, version, source, parsed_version, stdout,
                   exc, ckpt_ret, env_ret, run, prev>>

\* Variant of Parse: the raw version is printed before it is parsed.
ParseAfterPrintingVersion ==
    /\ pc = "parse"
    /\ stdout' = Append(stdout, Line("PYTORCH_VERSION=", version.s))
    /\ LET r == parse_pytorch_version(version)
       IN  IF r.raised /= ""
           THEN /\ exc' = r.raised
                /\ pc' = "except"
                /\ UNCHANGED <<parsed_version, stderr, exit_code>>
           ELSE /\ parsed_version' = r.value
                /\ exc' = exc
                /\ IF ~Truthy(r.value)
                   THEN /\ stderr' = stderr \o UnparseableDiagnostic
                        /\ exit_code' = 1
                        /\ pc' = "exited"
                   ELSE /\ pc' = "print_major_minor"
                        /\ UNCHANGED <<stderr, exit_code>>
    /\ UNCHANGED <<env, checkpoint_path, version, source, ckpt_ret, env_ret, run,
                   prev>>

\* main, lines 106-109: the parse of the version.
Parse ==
    /\ pc = "parse"
    /\ LET r == parse_pytorch_version(version)
       IN  IF r.raised /= ""
           THEN /\ exc' = r.raised
                /\ pc' = "except"
                /\ UNCHANGED <<parsed_version, stderr, exit_code>>
           ELSE /\ parsed_version' = r.value
                /\ exc' = exc
                /\ IF ~Truthy(r.value)
                   THEN /\ stderr' = stderr \o UnparseableDiagnostic
                        /\ exit_code' = 1
                        /\ pc' = "exited"
                   ELSE /\ pc' = "print_version"
                        /\ UNCHANGED <<stderr, exit_code>>
    /\ UNCHANGED <<env, checkpoint_path, version, source, stdout, ckpt_ret,
                   env_ret, run, prev>>

\* main, line 112
PrintVersion ==
    /\ pc = "print_version"
    /\ stdout' = Append(stdout, Line("PYTORCH_VERSION=", version.s))
    /\ pc' = "print_major_minor"
    /\ UNCHANGED <<env, checkpoint_path, version, source, parsed_version, stderr,
                   exit_code, exc, ckpt_ret, env_ret, run, prev>>

\* main, line 113
PrintMajorMinor ==
    /\ pc = "print_major_minor"
    /\ stdout' = Append(stdout, Line("PYTORCH_MAJOR_MINOR=", parsed_version.s))
    /\ pc' = "print_source"
    /\ UNCHANGED <<env, checkpoint_path, version, source, parsed_version, stderr,
                   exit_code, exc, ckpt_ret, env_ret, run, prev>>

\* main, line 114: an unbound local raises UnboundLocalError.
PrintSource ==
    /\ pc = "print_source"
    /\ IF source = "unbound"
       THEN /\ exc' = "UnboundLocalError"
            /\ pc' = "except"
            /\ UNCHANGED stdout
       ELSE /\ stdout' = Append(stdout, TagLine("SOURCE=", source))
            /\ pc' = "write_parsed"
            /\ exc' = exc
    /\ UNCHANGED <<env, checkpoint_path, version, source, parsed_version, stderr,
                   exit_code, ckpt_ret, env_ret, run, prev>>

\* Variant of WriteParsed: the raw version is written instead of major.minor.
WriteRawVersion ==
    /\ pc = "write_parsed"
    /\ stdout' = Append(stdout, Bare(version.s))
    /\ pc' = "return"
    /\ UNCHANGED <<env, checkpoint_path, version, source, parsed_version, stderr,
                   exit_code, exc, ckpt_ret, env_ret, run, prev>>

\* main, line 117
WriteParsed ==
    /\ pc = "write_parsed"
    /\ stdout' = Append(stdout, Bare(parsed_version.s))
    /\ pc' = "return"
    /\ UNCHANGED <<env, checkpoint_path, version, source, parsed_version, stderr,
                   exit_code, exc, ckpt_ret, env_ret, run, prev>>

\* main, line 118, and the end of the script: main returns and the process
\* exits with status 0.
ReturnFromMain ==
    /\ pc = "return"
    /\ exit_code' = 0
    /\ pc' = "exited"
    /\ UNCHANGED <<env, checkpoint_path, version, source, parsed_version, stdout,
                   stderr, exc, ckpt_ret, env_ret, run, prev>>

\* lines 125-127: an Exception that left main.
HandleException ==
    /\ pc = "except"
    /\ stderr' = stderr \o ExceptionDiagnostic(exc)
    /\ exit_code' = 1
    /\ pc' = "exited"
    /\ UNCHANGED <<env, checkpoint_path, version, source, parsed_version, stdout,
                   exc, ckpt_ret, env_ret, run, prev>>

\* lines 123-124: a KeyboardInterrupt raised in main (the user's Ctrl-C, at any
\* statement) ends the process with status 1 and no message.
KeyboardInterrupt ==
    /\ pc \in MainPcs
    /\ exc' = "KeyboardInterrupt"
    /\ exit_code' = 1
    /\ pc' = "exited"
    /\ UNCHANGED <<env, checkpoint_path, version, source, parsed_version, stdout,
                   stderr, ckpt_ret, env_ret, run, prev>>

\* The script is run again, with the same argument, file and interpreter.
RunAgain ==
    /\ pc = "exited"
    /\ run = 1
    /\ run' = 2
    /\ prev' = [stdout |-> stdout, stderr |-> stderr, exit_code |-> exit_code,
                exc |-> exc]
    /\ pc' = "main"
    /\ checkpoint_path' = "None"
    /\ version' = None
    /\ source' = "unbound"
    /\ parsed_version' = None
    /\ stdout' = <<>>
    /\ stderr' = <<>>
    /\ exit_code' = -1
    /\ exc' = ""
    /\ ckpt_ret' = NotCalled
    /\ env_ret' = NotCalled
    /\ UNCHANGED env

Next ==
    \/ ReadArgument
    \/ TryCheckpoint
    \/ FallbackEnv
    \/ CheckVersion
    \/ Parse
    \/ PrintVersion
    \/ PrintMajorMinor
    \/ PrintSource
    \/ WriteParsed
    \/ ReturnFromMain
    \/ HandleException
    \/ KeyboardInterrupt

Spec == Init /\ [][Next]_vars

\* Two runs of the script, one after the other.
SpecTwice == Init /\ [][Next \/ RunAgain]_vars

\* ------------------------------------------------- the parse, on its own

ParseChars == {"0", "1", "2", ".", "+"}

ParseInputs == UNION {[1..k -> ParseChars] : k \in 0..MaxLen}

ParseInit ==
    /\ argv = <<>>
    /\ file = NoFile
    /\ runtime = [status |-> "ImportError", version |-> <<>>]
    /\ pc = "parse_only"
    /\ checkpoint_path = "None"
    /\ version \in {Str(s) : s \in ParseInputs}
    /\ source = "unbound"
    /\ parsed_version = None
    /\ stdout = <<>>
    /\ stderr = <<>>
    /\ exit_code = -1
    /\ exc = ""
    /\ ckpt_ret = NotCalled
    /\ env_ret = NotCalled
    /\ run = 1
    /\ prev = NoOutput

\* A call of parse_pytorch_version(version).
ParseApply ==
    /\ pc = "parse_only"
    /\ LET r == parse_pytorch_version(version)
       IN  /\ parsed_version' = r.value
           /\ exc' = r.raised
    /\ pc' = "parsed"
    /\ UNCHANGED <<env, checkpoint_path, version, source, stdout, stderr,
                   exit_code, ckpt_ret, env_ret, run, prev>>

ParseSpec == ParseInit /\ [][ParseApply]_vars

\* ------------------------------------------------- the terms of the claims

Dots(s) == {i \in 1..Len(s) : s[i] = "."}

AllDigits(s) == s /= <<>> /\ \A i \in 1..Len(s) : IsDigit(s[i])

\* "X.Y.Z...": two runs of digits, each followed by a dot.
WellFormed(s) ==
    \E i, j \in Dots(s) :
        /\ i < j
        /\ AllDigits(SubSeq(s, 1, i - 1))
        /\ AllDigits(SubSeq(s, i + 1, j - 1))

FirstDot(s) == Min(Dots(s))
SecondDot(s) == Min(Dots(s) \ {FirstDot(s)})

\* The text of the first and of the second component of a well-formed string,
\* and the text of both, as written.
MajorText(s) == SubSeq(s, 1, FirstDot(s) - 1)
MinorText(s) == SubSeq(s, FirstDot(s) + 1, SecondDot(s) - 1)
FirstTwoComponents(s) == SubSeq(s, 1, SecondDot(s) - 1)

\* A decimal numeral with no leading zero.
Canonical(d) == AllDigits(d) /\ (Len(d) = 1 \/ d[1] /= "0")

\* r is "major.minor" of the well-formed s: two numerals with no leading zero,
\* of the numbers the first two components of s denote.
IsMajorMinorOf(r, s) ==
    \E k \in 1..Len(r) :
        /\ r[k] = "."
        /\ Canonical(SubSeq(r, 1, k - 1))
        /\ Canonical(SubSeq(r, k + 1, Len(r)))
        /\ IntOf(SubSeq(r, 1, k - 1)) = IntOf(MajorText(s))
        /\ IntOf(SubSeq(r, k + 1, Len(r))) = IntOf(MinorText(s))

\* The statements of main after the version was resolved.
AfterFallback ==
    {"check_version", "parse", "print_version", "print_major_minor",
     "print_source", "write_parsed", "return"}

Interrupted == exc = "KeyboardInterrupt"

\* The checkpoint argument names a file that exists and that torch.load loads.
Loads == argv = <<"model.ckpt">> /\ file.state = "ok" /\ runtime.status = "ok"

HoldsVersion(e) == e.kind = "dict" /\ e.has

\* What a successful run writes to stdout.
ExpectedStdout(v, mm, tag) ==
    <<Line("PYTORCH_VERSION=", v), Line("PYTORCH_MAJOR_MINOR=", mm),
      TagLine("SOURCE=", tag), Bare(mm)>>

\* ----------------------------------------------------------------- claims

\* C1: for a checkpoint that exists and loads, the value returned by
\* get_torch_version_from_checkpoint is hyper_parameters.torch_version whenever
\* hyper_parameters holds one, else metadata.torch_version whenever metadata
\* holds one, else the torch_version of the first callbacks entry holding one.
C1_PriorityOrder ==
    (ckpt_ret.called /\ Loads /\ file.ckpt.kind = "dict") =>
        LET hparams == file.ckpt.hyper_parameters
            metadata == file.ckpt.metadata
            entries == file.ckpt.callbacks.entries
        IN  /\ HoldsVersion(hparams) => ckpt_ret.value = hparams.tv
            /\ (~HoldsVersion(hparams) /\ HoldsVersion(metadata)) =>
                   ckpt_ret.value = metadata.tv
            /\ (~HoldsVersion(hparams) /\ ~HoldsVersion(metadata)
                    /\ WithVersion(entries) /= {}) =>
                   ckpt_ret.value = entries[Min(WithVersion(entries))].tv

\* C2: when there is no checkpoint argument, or the file is missing, or its load
\* fails, and torch is importable, the version resolved is the one of the
\* runtime with source "environment"; no error is reported, and a run that ends
\* uninterrupted exits 0 with the runtime's version, its major.minor and
\* SOURCE=environment on stdout.
C2_FallsBackToEnvironment ==
    (/\ runtime.status = "ok"
     /\ argv /= <<"model.ckpt">> \/ file.state \in {"missing", "corrupt"}) =>
        /\ pc \in AfterFallback =>
               version = Str(runtime.version) /\ source = "environment"
        /\ stderr = <<>>
        /\ exc \in {"", "KeyboardInterrupt"}
        /\ (pc = "exited" /\ ~Interrupted) =>
               /\ exit_code = 0
               /\ stdout = ExpectedStdout(runtime.version,
                                          FirstTwoComponents(runtime.version),
                                          "environment")

C2_Witness ==
    /\ pc = "exited"
    /\ exit_code = 0
    /\ argv = <<"model.ckpt">>
    /\ file.state = "corrupt"
    /\ stdout[3] = TagLine("SOURCE=", "environment")

\* The checkpoint holds none of the recognised keys.
NoRecognisedKey(ckpt) ==
    \/ ckpt.kind /= "dict"
    \/ /\ ~HoldsVersion(ckpt.hyper_parameters)
       /\ ~HoldsVersion(ckpt.metadata)
       /\ WithVersion(ckpt.callbacks.entries) = {}

\* C3: when the checkpoint loads and holds none of the recognised keys, the
\* version resolved is the runtime's and the source is "checkpoint".
C3_ProxyTaggedCheckpoint ==
    (pc \in AfterFallback /\ Loads /\ NoRecognisedKey(file.ckpt)) =>
        version = Str(runtime.version) /\ source = "checkpoint"

\* C4: the unresolved diagnostic is written only with exit status 1, nothing on
\* stdout, and after the checkpoint step (if taken) gave no version and the
\* environment step was taken and returned None; and whenever neither step
\* yields a version (torch is not importable), a run that ends uninterrupted
\* ends that way.
C4_UnresolvedOnlyAfterBothFallbacks ==
    /\ stderr /= <<>> /\ stderr = UnresolvedDiagnostic =>
           /\ pc = "exited"
           /\ exit_code = 1
           /\ stdout = <<>>
           /\ exc = ""
           /\ ckpt_ret.called => ~Truthy(ckpt_ret.value)
           /\ env_ret = Called(Return(None))
           /\ runtime.status = "ImportError"
    /\ (pc = "exited" /\ ~Interrupted /\ runtime.status = "ImportError") =>
           stderr = UnresolvedDiagnostic /\ exit_code = 1

C4_Witness ==
    /\ pc = "exited"
    /\ stderr = UnresolvedDiagnostic
    /\ exit_code = 1
    /\ argv = <<"model.ckpt">>
    /\ file.state = "missing"
    /\ runtime.status = "ImportError"

\* C5, as stated: the parse of a well-formed string is the text of its first
\* two components, as written in the input.
C5_ReturnsComponentsAsWritten ==
    (pc = "parsed" /\ WellFormed(version.s)) =>
        parsed_version = Str(FirstTwoComponents(version.s))

\* C5, amended: the parse of a well-formed string is "major.minor", the decimal
\* numerals without leading zeros of the numbers its first two components
\* denote; it is the text of the two components when neither has a leading zero.
C5_ReturnsMajorMinor ==
    (pc = "parsed" /\ WellFormed(version.s)) =>
        /\ exc = ""
        /\ parsed_version.t = "str"
        /\ IsMajorMinorOf(parsed_version.s, version.s)
        /\ (Canonical(MajorText(version.s)) /\ Canonical(MinorText(version.s))) =>
               parsed_version.s = FirstTwoComponents(version.s)

C5_Witness ==
    /\ pc = "parsed"
    /\ version = Str(<<"0", "1", ".", "2", ".">>)
    /\ parsed_version = Str(<<"1", ".", "2">>)

\* C6: a version string that was found and has no leading "int.int." is fatal:
\* the statements after the parse are reached only with a well-formed version,
\* and a run that ends uninterrupted with such a version ends with the
\* unparseable diagnostic (not the unresolved one), status 1 and nothing on
\* stdout; when the string came from the checkpoint, the environment step was
\* not taken.
C6_UnparseableIsFatal ==
    /\ UnparseableDiagnostic /= UnresolvedDiagnostic
    /\ pc \in (AfterFallback \ {"check_version", "parse"}) =>
           version.t = "str" /\ WellFormed(version.s)
    /\ (/\ pc = "exited"
        /\ exc = ""
        /\ version.t = "str"
        /\ Truthy(version)
        /\ ~WellFormed(version.s)) =>
           /\ stderr = UnparseableDiagnostic
           /\ exit_code = 1
           /\ stdout = <<>>
           /\ (ckpt_ret.called /\ Truthy(ckpt_ret.value)) =>
                  version = ckpt_ret.value /\ ~env_ret.called
    /\ stderr = UnparseableDiagnostic =>
           version.t = "str" /\ Truthy(version) /\ ~WellFormed(version.s)

C6_Witness ==
    /\ pc = "exited"
    /\ stderr = UnparseableDiagnostic
    /\ exit_code = 1
    /\ ckpt_ret.called
    /\ ckpt_ret.value = Str(V28)
    /\ runtime.status = "ok"
    /\ ~env_ret.called

C8_SuccessfulOutput ==
    exit_code = 0 =>
        /\ pc = "exited"
        /\ stderr = <<>>
        /\ Len(stdout) = 4
        /\ stdout = ExpectedStdout(version.s, parsed_version.s, source)
        /\ source \in {"checkpoint", "environment"}
        /\ version.t = "str" /\ parsed_version.t = "str"
        /\ WellFormed(stdout[1].val)
        /\ IsMajorMinorOf(stdout[2].val, stdout[1].val)
        /\ stdout[4].val = stdout[2].val
        /\ parsed_version.s = stdout[2].val

C8_Witness ==
    /\ exit_code = 0
    /\ stdout = ExpectedStdout(V1131, <<"1", ".", "1", "3">>, "checkpoint")

\* What a run of the script ended with.
Output == [stdout |-> stdout, stderr |-> stderr, exit_code |-> exit_code, exc |-> exc]

C10_SourceRecordsTheStep ==
    /\ pc \in {"print_source", "write_parsed", "return"} => source /= "unbound"
    /\ exc /= "UnboundLocalError"
    /\ ckpt_ret.called => argv = <<"model.ckpt">>
    /\ pc \in AfterFallback => (ckpt_ret.called <=> argv = <<"model.ckpt">>)
    /\ exit_code = 0 =>
           LET fromCheckpoint == ckpt_ret.called /\ Truthy(ckpt_ret.value)
           IN  /\ stdout[3] = TagLine("SOURCE=", "checkpoint") <=> fromCheckpoint
               /\ fromCheckpoint =>
                      /\ ~env_ret.called
                      /\ stdout[1] = Line("PYTORCH_VERSION=", ckpt_ret.value.s)
               /\ ~fromCheckpoint =>
                      /\ env_ret.called
                      /\ env_ret.raised = ""
                      /\ stdout[1] = Line("PYTORCH_VERSION=", env_ret.value.s)
                      /\ stdout[3] = TagLine("SOURCE=", "environment")

C10_Witness ==
    /\ exit_code = 0
    /\ ckpt_ret.called
    /\ ckpt_ret.value = Str(<<>>)
    /\ env_ret.called
    /\ stdout[3] = TagLine("SOURCE=", "environment")

====
